---- MODULE Spec2Model ----
(***************************************************************************)
(* A model of the study-schedule planner of src/app.js: the per-date       *)
(* record store (StorageManager over localStorage), the session state     *)
(* (AppState), and the three managers (TaskManager, DSTopicManager,        *)
(* EnglishManager) with their derived statistics.                          *)
(*                                                                         *)
(* Representation.  A JavaScript string whose characters matter (times,    *)
(* topics, notes, durations, ids) is a sequence of one-character strings   *)
(* or of digit values; a string that is only copied and compared is a      *)
(* TLA+ string.  A Date is the record of its local calendar fields, the    *)
(* month 0-based as in JavaScript.  The text JSON.stringify writes is a    *)
(* tuple of arrays of tuples of field values, in the order of the keys.    *)
(***************************************************************************)
EXTENDS Integers, Sequences, FiniteSets, TLC

VARIABLES
    store,        \* localStorage: key -> JSON text, only for the keys written
    currentDate,  \* AppState.currentDate
    currentData,  \* AppState.currentData
    shown,        \* what UI.renderProgress last wrote to the progress panel
    weekly,       \* what UI.renderWeeklyOverview last wrote to the weekly panel
    editingTaskId, \* AppState.editingTaskId
    summaries,    \* the summaries renderDSSummary and renderEnglishSummary last showed
    last          \* the operation that produced this state (history)

vars ==
    <<store, currentDate, currentData, editingTaskId, shown, weekly, summaries, last>>

(***************************************************************************)
(* Bounds of the model.                                                    *)
(***************************************************************************)
MaxItems == 2      \* Spec: tasks + topics + activities held by the whole store
MaxTasks == 3      \* SpecTasks: tasks held by the whole store
MaxNumDays == 2    \* largest numDays handed to addRecurringTask
MaxStatTotal == 40 \* SpecStats: longest task list
MaxWeekTasks == 2  \* SpecWeek: tasks held by the whole store
MaxAnchorDays == 100 \* SpecWeekStart: days after AnchorFirst a session visits
MaxSummaryItems == 2 \* SpecSummary: topics + activities held by the whole store
MaxFormTasks == 4  \* SpecForm: tasks held by the whole store

(***************************************************************************)
(* DateUtil                                                                *)
(***************************************************************************)
IsLeap(y) == (y % 4 = 0 /\ y % 100 # 0) \/ y % 400 = 0

\* month is 0-based
DaysInMonth(y, m) ==
    IF m = 1 THEN (IF IsLeap(y) THEN 29 ELSE 28)
    ELSE IF m \in {3, 5, 8, 10} THEN 30 ELSE 31

\* Date.prototype.setDate with a day outside the month: the Date normalises
\* into the following or the preceding months.
RECURSIVE Date_setDate(_, _)
Date_setDate(date, d) ==
    IF d > DaysInMonth(date.year, date.month)
    THEN LET ny == IF date.month = 11 THEN date.year + 1 ELSE date.year
             nm == IF date.month = 11 THEN 0 ELSE date.month + 1
         IN  Date_setDate([year |-> ny, month |-> nm, day |-> 1],
                     d - DaysInMonth(date.year, date.month))
    ELSE IF d < 1
    THEN LET py == IF date.month = 0 THEN date.year - 1 ELSE date.year
             pm == IF date.month = 0 THEN 11 ELSE date.month - 1
         IN  Date_setDate([year |-> py, month |-> pm, day |-> 1],
                     d + DaysInMonth(py, pm))
    ELSE [date EXCEPT !.day = d]

addDays(date, days) == Date_setDate(date, date.day + days)

\* the days of year y before its month m (0-based)
RECURSIVE DaysBeforeMonth(_, _)
DaysBeforeMonth(y, m) ==
    IF m = 0 THEN 0 ELSE DaysBeforeMonth(y, m - 1) + DaysInMonth(y, m - 1)

\* the days from 1 January of year 1, a Monday, to 1 January of year y
DaysBeforeYear(y) ==
    365 * (y - 1) + (y - 1) \div 4 - (y - 1) \div 100 + (y - 1) \div 400

\* Date.prototype.getDay: 0 for Sunday .. 6 for Saturday
getDay(date) ==
    (DaysBeforeYear(date.year) + DaysBeforeMonth(date.year, date.month) + date.day) % 7

\* toLocaleDateString('en-US', { weekday: 'short' })
getDayName(date) ==
    <<"Sun", "Mon", "Tue", "Wed", "Thu", "Fri", "Sat">>[getDay(date) + 1]

\* `${date.getMonth() + 1}/${date.getDate()}`
getDateString(date) == <<date.month + 1, "/", date.day>>

\* a week start that treats Sunday as the days 1 .. 6 are treated
getStartOfWeek_sundayAsFirstDay(date) ==
    Date_setDate(date, date.day + (1 - getDay(date)))

getStartOfWeek(date) ==
    LET day == getDay(date)
        diff == IF day = 0 THEN -6 ELSE 1 - day
    IN  Date_setDate(date, date.day + diff)

\* String(n).padStart(2, '0') for 0 <= n <= 99, as its two digits
padStart2(n) == <<n \div 10, n % 10>>

\* `${year}-${month}-${day}`
formatDate(date) ==
    <<date.year>> \o <<"-">> \o padStart2(date.month + 1) \o <<"-">> \o
    padStart2(date.day)

\* The session stays within these days: the last day of a year and the first
\* of the next, so that addDays crosses a month and a year both ways.
FirstDate == [year |-> 2025, month |-> 11, day |-> 31]
Window == {FirstDate, addDays(FirstDate, 1)}

(***************************************************************************)
(* StorageManager                                                          *)
(***************************************************************************)
getDefaultDateData == [tasks |-> <<>>, dsTopics |-> <<>>, englishActivities |-> <<>>]

stringifyTask(t) == <<t.id, t.startTime, t.endTime, t.name, t.category, t.completed>>
\* a parse that does not restore the completed flag
parseTask_dropsCompleted(x) ==
    [id |-> x[1], startTime |-> x[2], endTime |-> x[3], name |-> x[4],
     category |-> x[5], completed |-> FALSE]

parseTask(x) ==
    [id |-> x[1], startTime |-> x[2], endTime |-> x[3], name |-> x[4],
     category |-> x[5], completed |-> x[6]]

stringifyTopic(t) ==
    <<t.id, t.topic, t.duration, t.difficulty, t.resource, t.notes, t.date>>
parseTopic(x) ==
    [id |-> x[1], topic |-> x[2], duration |-> x[3], difficulty |-> x[4],
     resource |-> x[5], notes |-> x[6], date |-> x[7]]

stringifyActivity(a) ==
    <<a.id, a.type, a.duration, a.completed, a.content, a.notes, a.date>>
parseActivity(x) ==
    [id |-> x[1], type |-> x[2], duration |-> x[3], completed |-> x[4],
     content |-> x[5], notes |-> x[6], date |-> x[7]]

JSONstringify(data) ==
    << [i \in 1..Len(data.tasks) |-> stringifyTask(data.tasks[i])],
       [i \in 1..Len(data.dsTopics) |-> stringifyTopic(data.dsTopics[i])],
       [i \in 1..Len(data.englishActivities) |->
            stringifyActivity(data.englishActivities[i])] >>

JSONparse(text) ==
    [tasks |-> [i \in 1..Len(text[1]) |-> parseTask(text[1][i])],
     dsTopics |-> [i \in 1..Len(text[2]) |-> parseTopic(text[2][i])],
     englishActivities |-> [i \in 1..Len(text[3]) |-> parseActivity(text[3][i])]]

getDateData(st, key) ==
    IF key \in DOMAIN st THEN JSONparse(st[key]) ELSE getDefaultDateData

\* a save into one record shared by all dates
saveDateData_sharedRecord(st, key, data) ==
    [k \in (DOMAIN st) \cup {key} |-> JSONstringify(data)]

saveDateData(st, key, data) ==
    [k \in (DOMAIN st) \cup {key} |->
        IF k = key THEN JSONstringify(data) ELSE st[k]]

(***************************************************************************)
(* AppState                                                                *)
(***************************************************************************)
getCurrentDateString(date) == formatDate(date)

\* save that forgets to write
save_skipped(st, date, data) == st

\* AppState.save: the store after writing `data` under the active date
save(st, date, data) == saveDateData(st, getCurrentDateString(date), data)

(***************************************************************************)
(* Strings                                                                 *)
(***************************************************************************)
\* The white space and line terminators String.prototype.trim and parseInt
\* skip: space, tab, line feed, carriage return, form feed, and, written as
\* the characters themselves, U+000B, U+00A0, U+FEFF and U+1680.  The other
\* space separators (U+2000 .. U+200A, U+2028, U+2029, U+202F, U+205F,
\* U+3000) cannot be written in a string of this module and stay outside
\* the inputs.
Whitespace == {" ", "\t", "\n", "\r", "\f", "", " ", "﻿", " "}

\* String.prototype.trim
RECURSIVE trimStart(_)
trimStart(s) ==
    IF s # <<>> /\ Head(s) \in Whitespace THEN trimStart(Tail(s)) ELSE s

RECURSIVE trimEnd(_)
trimEnd(s) ==
    IF s # <<>> /\ s[Len(s)] \in Whitespace
    THEN trimEnd(SubSeq(s, 1, Len(s) - 1)) ELSE s

trim(s) == trimEnd(trimStart(s))

\* `s || null` for a string s: the empty string is falsy.  null is written
\* as a one-element sequence that no string of characters equals.
Null == <<"null">>
orNull(s) == IF s = <<>> THEN Null ELSE s

\* `s || dflt` for strings that are only copied and compared
orDefault(s, dflt) == IF s = "" THEN dflt ELSE s

\* a.localeCompare(b) for strings of digits (a time "HH:MM" is its four
\* digits with 10 standing for the colon, which both strings hold at the
\* same place): the sign of the first difference, a proper prefix first.
RECURSIVE localeCompare(_, _)
localeCompare(a, b) ==
    IF a = <<>> /\ b = <<>> THEN 0
    ELSE IF a = <<>> THEN -1
    ELSE IF b = <<>> THEN 1
    ELSE IF Head(a) < Head(b) THEN -1
    ELSE IF Head(a) > Head(b) THEN 1
    ELSE localeCompare(Tail(a), Tail(b))

(***************************************************************************)
(* generateId                                                              *)
(***************************************************************************)
\* Number.prototype.toString(36) of a positive integer, as its digit values
RECURSIVE toString36(_)
toString36(n) ==
    IF n < 36 THEN <<n>> ELSE Append(toString36(n \div 36), n % 36)

\* Math.random().toString(36) for the value k/36: "0" or "0.k"
randomToString36(k) == IF k = 0 THEN <<0>> ELSE <<0, ".", k>>

\* String.prototype.substr(2)
substr2(s) == SubSeq(s, 3, Len(s))

\* Date.now().toString(36) + Math.random().toString(36).substr(2)
generateId(now, rnd) == toString36(now) \o substr2(randomToString36(rnd))

\* what Date.now() and Math.random() may return
Clock == {36}
Random == {0, 1}
Ids == { generateId(now, rnd) : now \in Clock, rnd \in Random }

(***************************************************************************)
(* TaskManager                                                             *)
(***************************************************************************)
\* Array.prototype.sort with (a, b) => a.startTime.localeCompare(b.startTime):
\* a stable sort, here by insertion from the left.
\* a push that is not followed by the sort
insertTask_unsorted(sorted, t) == Append(sorted, t)

RECURSIVE insertTask(_, _)
insertTask(sorted, t) ==
    IF sorted = <<>> THEN <<t>>
    ELSE IF localeCompare(sorted[Len(sorted)].startTime, t.startTime) <= 0
         THEN Append(sorted, t)
         ELSE Append(insertTask(SubSeq(sorted, 1, Len(sorted) - 1), t),
                     sorted[Len(sorted)])

RECURSIVE sortTasks(_)
sortTasks(tasks) ==
    IF tasks = <<>> THEN <<>>
    ELSE insertTask(sortTasks(SubSeq(tasks, 1, Len(tasks) - 1)), tasks[Len(tasks)])

newTask(taskData, id) ==
    [id |-> id, startTime |-> taskData.startTime, endTime |-> taskData.endTime,
     name |-> taskData.name, category |-> taskData.category, completed |-> FALSE]

\* Array.prototype.find(t => t.id === id): the index of the first match, or 0
findIndex(items, id) ==
    IF \E i \in 1..Len(items) : items[i].id = id
    THEN CHOOSE i \in 1..Len(items) :
            items[i].id = id /\ \A j \in 1..(i - 1) : items[j].id # id
    ELSE 0

\* Array.prototype.filter(t => t.id !== id)
RECURSIVE filterOut(_, _)
filterOut(items, id) ==
    IF items = <<>> THEN <<>>
    ELSE IF Head(items).id # id
         THEN <<Head(items)>> \o filterOut(Tail(items), id)
         ELSE filterOut(Tail(items), id)

\* Every operation below yields the session after the call:
\* [store, currentData].
addTask(st, date, data, taskData, id) ==
    LET d == [data EXCEPT !.tasks = sortTasks(Append(@, newTask(taskData, id)))]
    IN  [store |-> save(st, date, d), currentData |-> d]

\* the loop of addRecurringTask from iteration i on; ids[i + 1] is the id
\* generateId returns in iteration i
RECURSIVE recurringLoop(_, _, _, _, _, _)
recurringLoop(st, date, taskData, numDays, ids, i) ==
    IF i >= numDays THEN st
    ELSE LET dateString == formatDate(addDays(date, i))
             dateData == getDateData(st, dateString)
             d == [dateData EXCEPT
                     !.tasks = sortTasks(Append(@, newTask(taskData, ids[i + 1])))]
         IN  recurringLoop(saveDateData(st, dateString, d), date, taskData,
                           numDays, ids, i + 1)

\* the refresh of the current view done before the loop has written
addRecurringTask_staleRefresh(st, date, data, taskData, numDays, ids) ==
    [store |-> recurringLoop(st, date, taskData, numDays, ids, 0),
     currentData |-> getDateData(st, getCurrentDateString(date))]

addRecurringTask(st, date, data, taskData, numDays, ids) ==
    LET st2 == recurringLoop(st, date, taskData, numDays, ids, 0)
    IN  [store |-> st2, currentData |-> getDateData(st2, getCurrentDateString(date))]

\* an update that rebuilds the task the way newTask does, completed = false
updateTaskFields_resetsCompleted(task, taskData) ==
    newTask(taskData, task.id)

updateTaskFields(task, taskData) ==
    [task EXCEPT !.startTime = taskData.startTime, !.endTime = taskData.endTime,
                 !.name = taskData.name, !.category = taskData.category]

updateTask(st, date, data, id, taskData) ==
    LET i == findIndex(data.tasks, id)
    IN  IF i # 0
        THEN LET d == [data EXCEPT !.tasks =
                         sortTasks([@ EXCEPT ![i] = updateTaskFields(@, taskData)])]
             IN  [store |-> save(st, date, d), currentData |-> d]
        ELSE [store |-> st, currentData |-> data]

deleteTask(st, date, data, id) ==
    LET d == [data EXCEPT !.tasks = filterOut(@, id)]
    IN  [store |-> save(st, date, d), currentData |-> d]

\* a toggle that marks the task completed instead of flipping it
toggleTask_setsTrue(st, date, data, id) ==
    LET i == findIndex(data.tasks, id)
    IN  IF i # 0
        THEN LET d == [data EXCEPT !.tasks[i].completed = TRUE]
             IN  [store |-> save(st, date, d), currentData |-> d]
        ELSE [store |-> st, currentData |-> data]

toggleTask(st, date, data, id) ==
    LET i == findIndex(data.tasks, id)
    IN  IF i # 0
        THEN LET d == [data EXCEPT !.tasks[i].completed = ~@]
             IN  [store |-> save(st, date, d), currentData |-> d]
        ELSE [store |-> st, currentData |-> data]

(***************************************************************************)
(* IEEE 754 double arithmetic, as far as getStats uses it.  A positive     *)
(* double is [m, e]: m its 53 significand bits, the leading 1 first, and   *)
(* the value is 0.m * 2^e.  Zero is the double whose bits are all 0.       *)
(* Every intermediate integer stays below 2^31.                            *)
(***************************************************************************)
Precision == 53
LimbBits == 20

DoubleZero == [m |-> [i \in 1..Precision |-> 0], e |-> 0]

\* 2^i mod den, by squaring
RECURSIVE modPow2(_, _)
modPow2(i, den) ==
    IF i = 0 THEN 1 % den
    ELSE LET h == modPow2(i \div 2, den)
         IN  (h * h * (IF i % 2 = 1 THEN 2 ELSE 1)) % den

\* what is left of num / den (0 <= num < den) after i binary digits
remainderAfter(num, den, i) == (num * modPow2(i, den)) % den

\* the first n binary digits of num / den after the point
quotientBits(num, den, n) ==
    [i \in 1..n |-> (2 * remainderAfter(num, den, i - 1)) \div den]

\* bits + 1, the leading bit first; carry is set when every bit was 1
increment(bits) ==
    IF \A i \in 1..Len(bits) : bits[i] = 1
    THEN [bits |-> [i \in 1..Len(bits) |-> 0], carry |-> 1]
    ELSE LET j == CHOOSE i \in 1..Len(bits) :
                    bits[i] = 0 /\ \A l \in (i + 1)..Len(bits) : bits[l] = 1
         IN  [bits |-> [i \in 1..Len(bits) |->
                          IF i < j THEN bits[i] ELSE IF i = j THEN 1 ELSE 0],
              carry |-> 0]

\* round to nearest, ties to even: `half` is how the discarded part compares
\* with half a unit in the last place (-1 below, 0 equal, 1 above)
roundToNearestEven(bits, e, half) ==
    IF half > 0 \/ (half = 0 /\ bits[Len(bits)] = 1)
    THEN LET up == increment(bits)
         IN  IF up.carry = 1
             THEN [m |-> <<1>> \o SubSeq(up.bits, 1, Len(bits) - 1), e |-> e + 1]
             ELSE [m |-> up.bits, e |-> e]
    ELSE [m |-> bits, e |-> e]

\* how many times c doubles before 2 * c >= t  (0 < c < t)
RECURSIVE doublings(_, _)
doublings(c, t) == IF 2 * c >= t THEN 0 ELSE 1 + doublings(2 * c, t)

\* the double c / t for integers 0 <= c <= t, 0 < t: c / t is 0.m * 2^e with
\* 1/2 <= 0.m < 1, which is num / den
fdiv(c, t) ==
    IF c = 0 THEN DoubleZero
    ELSE LET k == IF c = t THEN 0 ELSE doublings(c, t)
             num == IF c = t THEN c ELSE c * 2^k
             den == IF c = t THEN 2 * t ELSE t
             rem == remainderAfter(num, den, Precision)
             half == IF 2 * rem > den THEN 1 ELSE IF 2 * rem = den THEN 0 ELSE -1
         IN  roundToNearestEven(quotientBits(num, den, Precision),
                                IF c = t THEN 1 ELSE -k, half)

\* the integer a sequence of bits writes, the leading bit first
RECURSIVE bitsToInt(_)
bitsToInt(bits) ==
    IF bits = <<>> THEN 0
    ELSE IF Len(bits) = 1 THEN bits[1]
    ELSE LET h == Len(bits) \div 2
         IN  bitsToInt(SubSeq(bits, 1, h)) * 2^(Len(bits) - h) +
             bitsToInt(SubSeq(bits, h + 1, Len(bits)))

intToBits(x, width) == [i \in 1..width |-> (x \div 2^(width - i)) % 2]

bitLength(x) == CHOOSE n \in 0..30 : 2^n > x /\ (n = 0 \/ 2^(n - 1) <= x)

\* the bits of m * k for a significand m and an integer 0 < k < 2^10: m is
\* cut into limbs of LimbBits bits, the carry runs from the lowest limb up
timesSmall(m, k) ==
    LET lo == bitsToInt(SubSeq(m, Len(m) - LimbBits + 1, Len(m))) * k
        mid == bitsToInt(SubSeq(m, Len(m) - 2 * LimbBits + 1, Len(m) - LimbBits)) * k
                 + lo \div 2^LimbBits
        hi == bitsToInt(SubSeq(m, 1, Len(m) - 2 * LimbBits)) * k + mid \div 2^LimbBits
    IN  intToBits(hi, bitLength(hi)) \o intToBits(mid % 2^LimbBits, LimbBits) \o
        intToBits(lo % 2^LimbBits, LimbBits)

\* the double x * k for a double x >= 0 and an integer 0 < k < 2^10
fmul(x, k) ==
    IF x = DoubleZero THEN DoubleZero
    ELSE LET p == timesSmall(x.m, k)
             L == Len(p)
             tail == SubSeq(p, Precision + 1, L)
             half == IF tail = <<>> \/ tail[1] = 0 THEN -1
                     ELSE IF \A i \in 2..Len(tail) : tail[i] = 0 THEN 0 ELSE 1
         IN  roundToNearestEven(SubSeq(p, 1, Precision), x.e + (L - Precision), half)

\* Math.round of a double 0 <= x < 2^30: the nearest integer, a tie upwards
MathRound(x) ==
    IF x = DoubleZero \/ x.e < 0 THEN 0
    ELSE bitsToInt(SubSeq(x.m, 1, x.e)) + x.m[x.e + 1]

\* Array.prototype.filter(t => t.completed).length
RECURSIVE countCompleted(_)
countCompleted(tasks) ==
    IF tasks = <<>> THEN 0
    ELSE (IF Head(tasks).completed THEN 1 ELSE 0) + countCompleted(Tail(tasks))

getStats(data) ==
    LET total == Len(data.tasks)
        completed == countCompleted(data.tasks)
        rate == IF total > 0 THEN MathRound(fmul(fdiv(completed, total), 100)) ELSE 0
    IN  [total |-> total, completed |-> completed, rate |-> rate]

(***************************************************************************)
(* UI.renderWeeklyOverview: the week start it computed and the seven day   *)
(* cards it wrote, in order.                                               *)
(***************************************************************************)
dayCard(st, date) ==
    LET data == getDateData(st, formatDate(date))
        total == Len(data.tasks)
        completed == countCompleted(data.tasks)
        rate == IF total > 0 THEN MathRound(fmul(fdiv(completed, total), 100)) ELSE 0
    IN  [dayName |-> getDayName(date), dayDate |-> getDateString(date),
         completion |-> rate]

renderWeeklyOverview(st, date) ==
    LET startOfWeek == getStartOfWeek(date)
    IN  [startOfWeek |-> startOfWeek,
         cards |-> [i \in 1..7 |-> dayCard(st, addDays(startOfWeek, i - 1))]]

(***************************************************************************)
(* DSTopicManager                                                          *)
(***************************************************************************)
newTopic(topicData, id, date) ==
    [id |-> id, topic |-> trim(topicData.topic),
     duration |-> orNull(topicData.duration),
     difficulty |-> orDefault(topicData.difficulty, "Intermediate"),
     resource |-> orDefault(topicData.resource, "Other"),
     notes |-> orNull(trim(topicData.notes)),
     date |-> getCurrentDateString(date)]

\* addTopic without the test of the trimmed topic
addTopic_unguarded(st, date, data, topicData, id) ==
    LET d == [data EXCEPT !.dsTopics = Append(@, newTopic(topicData, id, date))]
    IN  [store |-> save(st, date, d), currentData |-> d]

addTopic(st, date, data, topicData, id) ==
    IF trim(topicData.topic) # <<>>
    THEN LET d == [data EXCEPT !.dsTopics = Append(@, newTopic(topicData, id, date))]
         IN  [store |-> save(st, date, d), currentData |-> d]
    ELSE [store |-> st, currentData |-> data]

deleteTopic(st, date, data, id) ==
    LET d == [data EXCEPT !.dsTopics = filterOut(@, id)]
    IN  [store |-> save(st, date, d), currentData |-> d]

\* parseInt(string): the digits after leading whitespace and a sign, in
\* base 16 after "0x", up to the first character that is no digit; <<n>> for
\* the number n and <<>> for NaN.  null is converted to the string "null".
DigitValue(c) ==
    LET lower == <<"0", "1", "2", "3", "4", "5", "6", "7", "8", "9",
                   "a", "b", "c", "d", "e", "f">>
        upper == <<"0", "1", "2", "3", "4", "5", "6", "7", "8", "9",
                   "A", "B", "C", "D", "E", "F">>
    IN  IF \E i \in 1..16 : lower[i] = c
        THEN (CHOOSE i \in 1..16 : lower[i] = c) - 1
        ELSE IF \E i \in 1..16 : upper[i] = c
        THEN (CHOOSE i \in 1..16 : upper[i] = c) - 1
        ELSE 36

\* the digits of radix `radix` that s starts with, as <<how many, their value>>
RECURSIVE leadingDigits(_, _, _, _)
leadingDigits(s, radix, count, value) ==
    IF s # <<>> /\ DigitValue(Head(s)) < radix
    THEN leadingDigits(Tail(s), radix, count + 1, value * radix + DigitValue(Head(s)))
    ELSE <<count, value>>

parseInt(string) ==
    LET s1 == trimStart(string)
        negative == s1 # <<>> /\ Head(s1) = "-"
        s2 == IF s1 # <<>> /\ Head(s1) \in {"+", "-"} THEN Tail(s1) ELSE s1
        hex == Len(s2) >= 2 /\ s2[1] = "0" /\ s2[2] \in {"x", "X"}
        s3 == IF hex THEN Tail(Tail(s2)) ELSE s2
        r == leadingDigits(s3, IF hex THEN 16 ELSE 10, 0, 0)
    IN  IF r[1] = 0 THEN <<>> ELSE <<IF negative THEN -r[2] ELSE r[2]>>

\* `parseInt(duration) || 0`: NaN and 0 are falsy
minutesOf(duration) ==
    LET n == parseInt(duration) IN IF n = <<>> \/ n = <<0>> THEN 0 ELSE n[1]

\* reduce((sum, t) => sum + (parseInt(t.duration) || 0), 0)
RECURSIVE sumMinutes(_)
sumMinutes(items) ==
    IF items = <<>> THEN 0
    ELSE sumMinutes(SubSeq(items, 1, Len(items) - 1))
           + minutesOf(items[Len(items)].duration)

DSTopic_getSummary(data) ==
    [totalSessions |-> Len(data.dsTopics), totalMinutes |-> sumMinutes(data.dsTopics)]

(***************************************************************************)
(* EnglishManager                                                          *)
(***************************************************************************)
newActivity(activityData, id, date) ==
    [id |-> id, type |-> activityData.type,
     duration |-> orNull(activityData.duration),
     completed |-> (activityData.completed = "true"),
     content |-> orNull(trim(activityData.content)),
     notes |-> orNull(trim(activityData.notes)),
     date |-> getCurrentDateString(date)]

\* Every record comes from getDefaultDateData or from a record saved before,
\* so englishActivities is always there and the two `!englishActivities`
\* branches of the source are never taken.
addActivity(st, date, data, activityData, id) ==
    LET d == [data EXCEPT
                !.englishActivities = Append(@, newActivity(activityData, id, date))]
    IN  [store |-> save(st, date, d), currentData |-> d]

deleteActivity(st, date, data, id) ==
    LET d == [data EXCEPT !.englishActivities = filterOut(@, id)]
    IN  [store |-> save(st, date, d), currentData |-> d]

English_getSummary(data) ==
    [totalActivities |-> Len(data.englishActivities),
     completedActivities |-> countCompleted(data.englishActivities),
     totalMinutes |-> sumMinutes(data.englishActivities)]

(***************************************************************************)
(* Inputs                                                                  *)
(***************************************************************************)
TaskInputs ==
    { [startTime |-> <<1, 0, 10, 0, 0>>, endTime |-> <<1, 1, 10, 0, 0>>,
       name |-> "Read", category |-> "Study"],
      [startTime |-> <<0, 9, 10, 3, 0>>, endTime |-> <<0, 9, 10, 4, 5>>,
       name |-> "Bus", category |-> "Travel"] }

TopicInputs ==
    { [topic |-> <<>>, duration |-> <<"3", "0">>, difficulty |-> "Beginner",
       resource |-> "Video", notes |-> <<"x">>],
      [topic |-> <<" ", "\t", "\n">>, duration |-> <<>>, difficulty |-> "",
       resource |-> "", notes |-> <<>>],
      [topic |-> <<" ", "L", " ", "A", "\r", "\n">>, duration |-> <<>>, difficulty |-> "",
       resource |-> "", notes |-> <<" ">>],
      [topic |-> <<"S", "Q", "L">>, duration |-> <<"3", "0">>,
       difficulty |-> "Advanced", resource |-> "Book", notes |-> <<" ", "x">>] }

ActivityInputs ==
    { [type |-> "Podcast", duration |-> <<"1", "5">>, completed |-> "true",
       content |-> <<" ", "e", "p">>, notes |-> <<>>],
      [type |-> "Speaking", duration |-> <<>>, completed |-> "false",
       content |-> <<>>, notes |-> <<"w", "\n">>] }

NumDays == 0..MaxNumDays

(***************************************************************************)
(* The session                                                             *)
(***************************************************************************)
RECURSIVE SumOver(_, _)
SumOver(f, S) ==
    IF S = {} THEN 0
    ELSE LET x == CHOOSE y \in S : TRUE IN f[x] + SumOver(f, S \ {x})

\* how many tasks, topics and activities the store holds
ItemCount(st) ==
    SumOver([k \in DOMAIN st |->
                Len(st[k][1]) + Len(st[k][2]) + Len(st[k][3])], DOMAIN st)

EmptyStore == [k \in {} |-> <<>>]

\* AppState.init, then UI.init, on a day of the window with nothing stored
Init ==
    /\ store = EmptyStore
    /\ currentDate \in Window
    /\ currentData = getDateData(store, getCurrentDateString(currentDate))
    /\ shown = getStats(currentData)
    /\ weekly = renderWeeklyOverview(store, currentDate)
    /\ summaries = [ds |-> DSTopic_getSummary(currentData),
                    english |-> English_getSummary(currentData)]
    /\ editingTaskId = Null
    /\ last = [op |-> "init", n |-> 0]

Becomes(r, op, n) ==
    /\ store' = r.store
    /\ currentData' = r.currentData
    /\ last' = [op |-> op, n |-> n]
    /\ UNCHANGED <<currentDate, shown, weekly, summaries, editingTaskId>>

Hit(items, id) == IF findIndex(items, id) # 0 THEN 1 ELSE 0

\* `cap` bounds the items of the store, and the tasks held in memory, in
\* the specification that uses the action
AddTask(cap, taskData, now, rnd) ==
    /\ ItemCount(store) < cap
    /\ Len(currentData.tasks) < cap
    /\ Becomes(addTask(store, currentDate, currentData, taskData,
                       generateId(now, rnd)), "addTask", 1)

AddRecurringTask(cap, taskData, numDays, nows, rnds) ==
    /\ ItemCount(store) + numDays <= cap
    /\ \A i \in 0..(numDays - 1) : addDays(currentDate, i) \in Window
    /\ Becomes(addRecurringTask(store, currentDate, currentData, taskData, numDays,
                  [i \in 1..numDays |-> generateId(nows[i], rnds[i])]),
               "addRecurringTask", numDays)

UpdateTask(id, taskData) ==
    /\ id \in Ids
    /\ Becomes(updateTask(store, currentDate, currentData, id, taskData),
               "updateTask", Hit(currentData.tasks, id))

DeleteTask(id) ==
    /\ id \in Ids
    /\ Becomes(deleteTask(store, currentDate, currentData, id),
               "deleteTask", Hit(currentData.tasks, id))

ToggleTask(id) ==
    /\ id \in Ids
    /\ Becomes(toggleTask(store, currentDate, currentData, id),
               "toggleTask", Hit(currentData.tasks, id))

AddTopic(cap, topicData, now, rnd) ==
    /\ ItemCount(store) < cap
    /\ Becomes(addTopic(store, currentDate, currentData, topicData,
                        generateId(now, rnd)),
               "addTopic", IF trim(topicData.topic) # <<>> THEN 1 ELSE 0)

DeleteTopic(id) ==
    /\ id \in Ids
    /\ Becomes(deleteTopic(store, currentDate, currentData, id),
               "deleteTopic", Hit(currentData.dsTopics, id))

AddActivity(cap, activityData, now, rnd) ==
    /\ ItemCount(store) < cap
    /\ Becomes(addActivity(store, currentDate, currentData, activityData,
                           generateId(now, rnd)), "addActivity", 1)

DeleteActivity(id) ==
    /\ id \in Ids
    /\ Becomes(deleteActivity(store, currentDate, currentData, id),
               "deleteActivity", Hit(currentData.englishActivities, id))

\* AppState.setDate: the record loaded for the new date
setDate(st, date) == getDateData(st, getCurrentDateString(date))

\* History of a navigation step: the date left and the record held there,
\* and whether the step before was a navigation step too (n = 2) or not
\* (n = 1).
Left(op) ==
    [op |-> op, n |-> IF last.op \in {"prevDay", "nextDay"} THEN 2 ELSE 1,
     leftDate |-> currentDate, left |-> currentData]

PrevDay ==
    /\ addDays(currentDate, -1) \in Window
    /\ currentDate' = addDays(currentDate, -1)
    /\ currentData' = setDate(store, currentDate')
    /\ last' = Left("prevDay")
    /\ UNCHANGED <<store, shown, weekly, summaries, editingTaskId>>

NextDay ==
    /\ addDays(currentDate, 1) \in Window
    /\ currentDate' = addDays(currentDate, 1)
    /\ currentData' = setDate(store, currentDate')
    /\ last' = Left("nextDay")
    /\ UNCHANGED <<store, shown, weekly, summaries, editingTaskId>>

\* UI.renderProgress
RenderProgress ==
    /\ shown' = getStats(currentData)
    /\ last' = [op |-> "renderProgress", n |-> 0]
    /\ UNCHANGED <<store, currentDate, currentData, weekly, summaries, editingTaskId>>

\* a rendering that stores the record it read for each of the seven days
RenderWeeklyOverview_storesDays ==
    LET w == renderWeeklyOverview(store, currentDate)
        keys == { formatDate(addDays(w.startOfWeek, i)) : i \in 0..6 }
    IN  /\ weekly' = w
        /\ store' = [k \in DOMAIN store \cup keys |->
                        JSONstringify(getDateData(store, k))]
        /\ last' = [op |-> "renderWeeklyOverview", n |-> 0]
        /\ UNCHANGED <<currentDate, currentData, shown, summaries, editingTaskId>>

\* UI.renderWeeklyOverview
RenderWeeklyOverview ==
    /\ weekly' = renderWeeklyOverview(store, currentDate)
    /\ last' = [op |-> "renderWeeklyOverview", n |-> 0]
    /\ UNCHANGED <<store, currentDate, currentData, shown, summaries, editingTaskId>>

\* UI.renderDSSummary
RenderDSSummary ==
    /\ summaries' = [summaries EXCEPT !.ds = DSTopic_getSummary(currentData)]
    /\ last' = [op |-> "renderDSSummary", n |-> 0]
    /\ UNCHANGED <<store, currentDate, currentData, shown, weekly, editingTaskId>>

\* UI.renderEnglishSummary
RenderEnglishSummary ==
    /\ summaries' = [summaries EXCEPT !.english = English_getSummary(currentData)]
    /\ last' = [op |-> "renderEnglishSummary", n |-> 0]
    /\ UNCHANGED <<store, currentDate, currentData, shown, weekly, editingTaskId>>

\* UI.openAddTaskModal
OpenAddTaskModal ==
    /\ editingTaskId' = Null
    /\ last' = [op |-> "openAddTaskModal", n |-> 0]
    /\ UNCHANGED <<store, currentDate, currentData, shown, weekly, summaries>>

\* UI.openEditTaskModal(taskId): the id is kept whether or not the active
\* record holds such a task; the lookup only decides what the form shows.
OpenEditTaskModal(taskId) ==
    /\ taskId \in Ids
    /\ editingTaskId' = taskId
    /\ last' = [op |-> "openEditTaskModal", n |-> 0]
    /\ UNCHANGED <<store, currentDate, currentData, shown, weekly, summaries>>

\* UI.closeTaskModal
CloseTaskModal ==
    /\ editingTaskId' = Null
    /\ last' = [op |-> "closeTaskModal", n |-> 0]
    /\ UNCHANGED <<store, currentDate, currentData, shown, weekly, summaries>>

\* `if (AppState.editingTaskId)`: null and the empty string are falsy
isEditing(editing) == editing # Null /\ editing # <<>>

\* `parseInt(value) || 30` of the recurringDays field
recurringNumDays(value) ==
    LET n == parseInt(value) IN IF n = <<>> \/ n = <<0>> THEN 30 ELSE n[1]

\* The submit handler of the task form.  ids are the ids generateId returns
\* to the handler, in the order of its calls; nows and rnds, in the action,
\* are what Date.now() and Math.random() return in these calls.
submitTaskForm(st, date, data, editing, taskData, isRecurring, recurringDays, ids) ==
    LET numDays == recurringNumDays(recurringDays)
        r1 == IF isRecurring
              THEN addRecurringTask(st, date, data, taskData, numDays, ids)
              ELSE addTask(st, date, data, taskData, ids[1])
    IN  IF isEditing(editing)
        THEN updateTask(r1.store, date, r1.currentData, editing, taskData)
        ELSE addTask(r1.store, date, r1.currentData, taskData, ids[Len(ids)])

\* how often the handler calls generateId: once in every iteration of the
\* loop of addRecurringTask, which a numDays below 1 never enters
idCalls(editing, isRecurring, recurringDays) ==
    LET numDays == recurringNumDays(recurringDays)
    IN  (IF isRecurring THEN (IF numDays > 0 THEN numDays ELSE 0) ELSE 1)
          + (IF isEditing(editing) THEN 0 ELSE 1)

SubmitTaskForm(cap, taskData, isRecurring, recurringDays, nows, rnds) ==
    /\ Len(nows) = idCalls(editingTaskId, isRecurring, recurringDays)
    /\ Len(rnds) = Len(nows)
    /\ ItemCount(store) + Len(nows) <= cap
    /\ isRecurring =>
          \A i \in 0..(recurringNumDays(recurringDays) - 1) :
             addDays(currentDate, i) \in Window
    /\ LET calls == idCalls(editingTaskId, isRecurring, recurringDays)
           r == submitTaskForm(store, currentDate, currentData, editingTaskId,
                               taskData, isRecurring, recurringDays,
                               [i \in 1..calls |-> generateId(nows[i], rnds[i])])
       IN  /\ store' = r.store
           /\ currentData' = r.currentData
           /\ editingTaskId' = Null
           /\ shown' = getStats(r.currentData)
           /\ weekly' = renderWeeklyOverview(r.store, currentDate)
           /\ last' = [op |-> "submitTaskForm", n |-> calls]
           /\ UNCHANGED <<currentDate, summaries>>

\* UI.refresh, as far as the panels of the model go
Refresh ==
    /\ shown' = getStats(currentData)
    /\ weekly' = renderWeeklyOverview(store, currentDate)
    /\ summaries' = [ds |-> DSTopic_getSummary(currentData),
                     english |-> English_getSummary(currentData)]
    /\ last' = [op |-> "refresh", n |-> 0]
    /\ UNCHANGED <<store, currentDate, currentData, editingTaskId>>

\* the click handler of the prevDay button: AppState.prevDay, UI.refresh
ClickPrevDay ==
    /\ addDays(currentDate, -1) \in Window
    /\ currentDate' = addDays(currentDate, -1)
    /\ currentData' = setDate(store, currentDate')
    /\ shown' = getStats(currentData')
    /\ weekly' = renderWeeklyOverview(store, currentDate')
    /\ summaries' = [ds |-> DSTopic_getSummary(currentData'),
                     english |-> English_getSummary(currentData')]
    /\ last' = [op |-> "clickPrevDay", n |-> 0]
    /\ UNCHANGED <<store, editingTaskId>>

\* the click handler of the nextDay button: AppState.nextDay, UI.refresh
ClickNextDay ==
    /\ addDays(currentDate, 1) \in Window
    /\ currentDate' = addDays(currentDate, 1)
    /\ currentData' = setDate(store, currentDate')
    /\ shown' = getStats(currentData')
    /\ weekly' = renderWeeklyOverview(store, currentDate')
    /\ summaries' = [ds |-> DSTopic_getSummary(currentData'),
                     english |-> English_getSummary(currentData')]
    /\ last' = [op |-> "clickNextDay", n |-> 0]
    /\ UNCHANGED <<store, editingTaskId>>

\* StorageManager.clearAll: the application never calls it (its comment:
\* for testing purposes); AppState.currentData keeps what it holds.
ClearAll ==
    /\ store' = EmptyStore
    /\ last' = [op |-> "clearAll", n |-> 0]
    /\ UNCHANGED <<currentDate, currentData, editingTaskId, shown, weekly, summaries>>

\* AppState.setDate(date)
SetDate(date) ==
    /\ currentDate' = date
    /\ currentData' = setDate(store, date)
    /\ last' = [op |-> "setDate", n |-> 0]
    /\ UNCHANGED <<store, shown, weekly, summaries, editingTaskId>>

(***************************************************************************)
(* Spec: every manager, on a store of at most MaxItems items.              *)
(***************************************************************************)
Next ==
    \/ \E t \in TaskInputs, now \in Clock, rnd \in Random :
         AddTask(MaxItems, t, now, rnd)
    \/ \E t \in TaskInputs, n \in NumDays :
         \E nows \in [1..n -> Clock], rnds \in [1..n -> Random] :
            AddRecurringTask(MaxItems, t, n, nows, rnds)
    \/ \E id \in Ids, t \in TaskInputs : UpdateTask(id, t)
    \/ \E id \in Ids : DeleteTask(id)
    \/ \E id \in Ids : ToggleTask(id)
    \/ \E t \in TopicInputs, now \in Clock, rnd \in Random :
         AddTopic(MaxItems, t, now, rnd)
    \/ \E id \in Ids : DeleteTopic(id)
    \/ \E a \in ActivityInputs, now \in Clock, rnd \in Random :
         AddActivity(MaxItems, a, now, rnd)
    \/ \E id \in Ids : DeleteActivity(id)
    \/ PrevDay
    \/ NextDay

Spec == Init /\ [][Next]_vars

(***************************************************************************)
(* SpecTasks: the TaskManager and the navigation, on a store of at most    *)
(* MaxTasks tasks.                                                         *)
(***************************************************************************)
NextTasks ==
    \/ \E t \in TaskInputs, now \in Clock, rnd \in Random :
         AddTask(MaxTasks, t, now, rnd)
    \/ \E t \in TaskInputs, n \in NumDays :
         \E nows \in [1..n -> Clock], rnds \in [1..n -> Random] :
            AddRecurringTask(MaxTasks, t, n, nows, rnds)
    \/ \E id \in Ids, t \in TaskInputs : UpdateTask(id, t)
    \/ \E id \in Ids : DeleteTask(id)
    \/ \E id \in Ids : ToggleTask(id)
    \/ PrevDay
    \/ NextDay

SpecTasks == Init /\ [][NextTasks]_vars

(***************************************************************************)
(* SpecStats: getStats on a day of up to MaxStatTotal tasks, any number of *)
(* them completed.  The day is one the TaskManager builds: its tasks were  *)
(* added in different milliseconds and the first ones toggled; the         *)
(* progress panel still shows the empty day.                               *)
(***************************************************************************)
StatsDay(total, completed) ==
    [tasks |-> [i \in 1..total |->
                  [newTask(CHOOSE t \in TaskInputs : t.name = "Read",
                           generateId(36 + i, 1))
                   EXCEPT !.completed = (i <= completed)]],
     dsTopics |-> <<>>, englishActivities |-> <<>>]

InitStats ==
    /\ currentDate = FirstDate
    /\ \E total \in 0..MaxStatTotal : \E completed \in 0..total :
          currentData = StatsDay(total, completed)
    /\ store = save(EmptyStore, currentDate, currentData)
    /\ shown = getStats(getDefaultDateData)
    /\ weekly = renderWeeklyOverview(EmptyStore, currentDate)
    /\ summaries = [ds |-> DSTopic_getSummary(getDefaultDateData),
                    english |-> English_getSummary(getDefaultDateData)]
    /\ editingTaskId = Null
    /\ last = [op |-> "init", n |-> 0]

NextStats == RenderProgress

SpecStats == InitStats /\ [][NextStats]_vars

(***************************************************************************)
(* SpecWeek: adding and toggling tasks, the navigation and the weekly      *)
(* panel, on a store of at most MaxWeekTasks tasks that                    *)
(* StorageManager.clearAll may empty at any time.  Both days of Window lie  *)
(* in the week from 29 December 2025 to 4 January 2026.                    *)
(***************************************************************************)
NextWeek ==
    \/ \E t \in TaskInputs, now \in Clock, rnd \in Random :
         AddTask(MaxWeekTasks, t, now, rnd)
    \/ \E t \in TaskInputs, n \in NumDays :
         \E nows \in [1..n -> Clock], rnds \in [1..n -> Random] :
            AddRecurringTask(MaxWeekTasks, t, n, nows, rnds)
    \/ \E id \in Ids : ToggleTask(id)
    \/ PrevDay
    \/ NextDay
    \/ RenderWeeklyOverview
    \/ ClearAll

SpecWeek == Init /\ [][NextWeek]_vars

(***************************************************************************)
(* SpecWeekStart: the weekly panel of a session that moves to any of the   *)
(* days AnchorFirst .. AnchorFirst + MaxAnchorDays: every weekday, the ends *)
(* of months and of a year, and 29 February 2024.                          *)
(***************************************************************************)
AnchorFirst == [year |-> 2023, month |-> 11, day |-> 25]
Anchors == { addDays(AnchorFirst, i) : i \in 0..MaxAnchorDays }

NextWeekStart ==
    \/ \E d \in Anchors : SetDate(d)
    \/ RenderWeeklyOverview

SpecWeekStart == Init /\ [][NextWeekStart]_vars

(***************************************************************************)
(* SpecSummary: the topics and activities of one day and their summaries,  *)
(* on a store of at most MaxSummaryItems items.  The duration fields hold  *)
(* what an input field can hold: nothing, whole numbers, a number with a   *)
(* fraction, a number followed by a unit, and words.                       *)
(***************************************************************************)
SummaryTopicInputs ==
    { [topic |-> <<"S", "Q", "L">>, duration |-> d, difficulty |-> "",
       resource |-> "", notes |-> <<>>] :
      d \in { <<"3", "0">>, <<"a", "b", "c">>, <<"1", "2", "m">> } }

SummaryActivityInputs ==
    { [type |-> "Podcast", duration |-> <<>>, completed |-> "true",
       content |-> <<>>, notes |-> <<>>],
      [type |-> "Reading", duration |-> <<"7">>, completed |-> "false",
       content |-> <<>>, notes |-> <<>>],
      [type |-> "Writing", duration |-> <<"1", ".", "5">>, completed |-> "1",
       content |-> <<>>, notes |-> <<>>] }

NextSummary ==
    \/ \E t \in SummaryTopicInputs, now \in Clock, rnd \in Random :
         AddTopic(MaxSummaryItems, t, now, rnd)
    \/ \E id \in Ids : DeleteTopic(id)
    \/ \E a \in SummaryActivityInputs, now \in Clock, rnd \in Random :
         AddActivity(MaxSummaryItems, a, now, rnd)
    \/ \E id \in Ids : DeleteActivity(id)
    \/ RenderDSSummary
    \/ RenderEnglishSummary

SpecSummary == Init /\ [][NextSummary]_vars

(***************************************************************************)
(* SpecForm: the task form, in add mode and in edit mode, with the         *)
(* navigation, on a store of at most MaxFormTasks tasks.  The recurringDays *)
(* field holds 1, 2 or -1; left empty it stands for 30 days, more than the *)
(* days of Window.                                                         *)
(***************************************************************************)
RecurringDays == { <<"1">>, <<"2">>, <<"-", "1">> }

NextForm ==
    \/ OpenAddTaskModal
    \/ \E id \in Ids : OpenEditTaskModal(id)
    \/ CloseTaskModal
    \/ Refresh
    \/ ClickPrevDay
    \/ ClickNextDay
    \/ \E t \in TaskInputs, isRecurring \in BOOLEAN, days \in RecurringDays,
          calls \in 0..(MaxNumDays + 1) :
         \E nows \in [1..calls -> Clock], rnds \in [1..calls -> Random] :
            SubmitTaskForm(MaxFormTasks, t, isRecurring, days, nows, rnds)
    \/ PrevDay
    \/ NextDay

SpecForm == Init /\ [][NextForm]_vars

(***************************************************************************)
(* Properties                                                              *)
(***************************************************************************)
RemoveAt(s, i) == SubSeq(s, 1, i - 1) \o SubSeq(s, i + 1, Len(s))

ActiveKey == formatDate(currentDate)

\* a <= b for two strings of equal length, character by character
LexLeq(a, b) ==
    \/ a = b
    \/ \E i \in 1..Len(a) : a[i] < b[i] /\ \A j \in 1..(i - 1) : a[j] = b[j]

SortedByStart(tasks) ==
    \A i \in 1..(Len(tasks) - 1) : LexLeq(tasks[i].startTime, tasks[i + 1].startTime)

\* C1: the tasks of the active record and of every stored day record are
\* sorted ascending by startTime, compared as zero-padded HH:MM strings.
C1_TasksSorted ==
    /\ SortedByStart(currentData.tasks)
    /\ \A k \in DOMAIN store : SortedByStart(JSONparse(store[k]).tasks)

C1_Witness ==
    /\ last.op \in {"addTask", "addRecurringTask", "updateTask"}
    /\ Len(currentData.tasks) = 3
    /\ currentData.tasks[1].startTime # currentData.tasks[3].startTime

\* C2: write-through: in every state between operations the record that
\* getDateData returns for the active date equals AppState.currentData.
C2_WriteThrough == getDateData(store, ActiveKey) = currentData

C2_Witness ==
    /\ last.op \in {"addTask", "updateTask", "deleteTask", "toggleTask", "addTopic",
                    "deleteTopic", "addActivity", "deleteActivity",
                    "addRecurringTask"}
    /\ ActiveKey \in DOMAIN store
    /\ Len(currentData.tasks) + Len(currentData.dsTopics)
         + Len(currentData.englishActivities) >= 2

HasId(items, id) == \E i \in 1..Len(items) : items[i].id = id

StoredTasks(st, key) == getDateData(st, key).tasks

\* C3: addRecurringTask(task, N) on active date D leaves in each of the days
\* D .. D+N-1 the previous task list plus exactly one new task, the N new
\* tasks have pairwise distinct ids, and no other date's record changes.
C3_Post(N) ==
    LET day(i) == formatDate(addDays(currentDate, i - 1))
        targets == { day(i) : i \in 1..N }
    IN  /\ \E js \in [1..N -> 1..(ItemCount(store') + 1)] :
             /\ \A i \in 1..N :
                  /\ js[i] <= Len(StoredTasks(store', day(i)))
                  /\ RemoveAt(StoredTasks(store', day(i)), js[i])
                       = StoredTasks(store, day(i))
             /\ \A i, l \in 1..N :
                  i # l => StoredTasks(store', day(i))[js[i]].id
                             # StoredTasks(store', day(l))[js[l]].id
        /\ \A k \in (DOMAIN store \cup DOMAIN store') \ targets :
             k \in DOMAIN store /\ k \in DOMAIN store' /\ store'[k] = store[k]

C3_RecurringOnePerDay ==
    [][last'.op = "addRecurringTask" => C3_Post(last'.n)]_vars

\* C4: when addRecurringTask returns with N >= 1, the active record holds
\* the task just created for the active date, next to the tasks it held, and
\* equals the stored record of the active date.
C4_ReloadAfterLoop ==
    [][(last'.op = "addRecurringTask" /\ last'.n >= 1) =>
         \A t \in TaskInputs :
         \A nows \in [1..last'.n -> Clock], rnds \in [1..last'.n -> Random] :
            AddRecurringTask(MaxTasks, t, last'.n, nows, rnds) =>
               /\ \E j \in 1..Len(currentData'.tasks) :
                    /\ currentData'.tasks[j] = newTask(t, generateId(nows[1], rnds[1]))
                    /\ RemoveAt(currentData'.tasks, j) = currentData.tasks
               /\ currentData' = getDateData(store', ActiveKey)]_vars

C4_Witness ==
    /\ last = [op |-> "addRecurringTask", n |-> 2]
    /\ Len(currentData.tasks) = 2

\* C5: addTask appends exactly one task, completed = false, whose id differs
\* from the id of every task already in the active record; no two tasks of
\* one day record share an id.
C5_AddPost ==
    \E j \in 1..Len(currentData'.tasks) :
        /\ RemoveAt(currentData'.tasks, j) = currentData.tasks
        /\ currentData'.tasks[j].completed = FALSE
        /\ ~HasId(currentData.tasks, currentData'.tasks[j].id)

DistinctIds(items) ==
    \A i, j \in 1..Len(items) : i # j => items[i].id # items[j].id

C5_FreshId ==
    /\ [][last'.op = "addTask" => C5_AddPost]_vars
    /\ [](\A k \in DOMAIN store : DistinctIds(StoredTasks(store, k)))

\* C6: toggleTask(id) with id in the active record changes nothing but the
\* completed flag of the task with that id, in the record and in the store,
\* and a second toggleTask(id) restores both exactly.
C6_ToggleInverse ==
    [][\A id \in Ids :
         (HasId(currentData.tasks, id) /\ ToggleTask(id)) =>
            /\ \E i \in 1..Len(currentData.tasks) :
                 /\ currentData.tasks[i].id = id
                 /\ currentData' = [currentData EXCEPT !.tasks[i].completed = ~@]
            /\ store' = [store EXCEPT ![ActiveKey] = JSONstringify(currentData')]
            /\ toggleTask(store', currentDate', currentData', id)
                 = [store |-> store, currentData |-> currentData]]_vars

C6_Witness ==
    /\ last = [op |-> "toggleTask", n |-> 1]
    /\ Len(currentData.tasks) + Len(currentData.dsTopics) >= 2
    /\ \E i \in 1..Len(currentData.tasks) : currentData.tasks[i].completed

\* 100 * completed / total rounded to the nearest integer, a half upwards
HalfUpRate(completed, total) ==
    IF total > 0 THEN (200 * completed + total) \div (2 * total) ELSE 0

\* C7: getStats returns total = the number of tasks, completed = the number
\* of completed tasks and rate = 100 * completed / total rounded half up (0
\* for no task); 0 <= completed <= total and 0 <= rate <= 100.
C7_StatsRate ==
    last.op = "renderProgress" =>
        LET total == Len(currentData.tasks)
            completed == Cardinality({ i \in 1..total : currentData.tasks[i].completed })
        IN  /\ shown.total = total
            /\ shown.completed = completed
            /\ shown.rate = HalfUpRate(completed, total)
            /\ 0 <= shown.completed /\ shown.completed <= shown.total
            /\ 0 <= shown.rate /\ shown.rate <= 100

\* C8: updateTask(id, input) with id in the active record overwrites the
\* startTime, endTime, name and category of that task and nothing else: its id
\* and completed flag, every other task, the other collections and the other
\* days stay; with an id not in the record nothing changes at all.
C8_UpdateFrame ==
    [][\A id \in Ids, t \in TaskInputs :
         UpdateTask(id, t) =>
            IF HasId(currentData.tasks, id)
            THEN /\ \E i \in 1..Len(currentData.tasks), j \in 1..Len(currentData'.tasks) :
                      /\ currentData.tasks[i].id = id
                      /\ currentData'.tasks[j] =
                           [id |-> id, startTime |-> t.startTime,
                            endTime |-> t.endTime, name |-> t.name,
                            category |-> t.category,
                            completed |-> currentData.tasks[i].completed]
                      /\ RemoveAt(currentData'.tasks, j) = RemoveAt(currentData.tasks, i)
                 /\ currentData'.dsTopics = currentData.dsTopics
                 /\ currentData'.englishActivities = currentData.englishActivities
                 /\ store' = [store EXCEPT ![ActiveKey] = JSONstringify(currentData')]
            ELSE store' = store /\ currentData' = currentData]_vars

C8_Witness ==
    /\ last = [op |-> "updateTask", n |-> 1]
    /\ Len(currentData.tasks) = 2
    /\ currentData.tasks[1].startTime # currentData.tasks[2].startTime
    /\ \E i \in 1..2 : currentData.tasks[i].completed

\* C9: deleteTask, deleteTopic and deleteActivity with an id that is not in
\* the collection leave the collection as it is; with an id that is in it
\* they remove exactly that item and keep the order of the rest.
C9_DeletePost(old, new, id) ==
    IF HasId(old, id)
    THEN \E i \in 1..Len(old) : old[i].id = id /\ new = RemoveAt(old, i)
    ELSE new = old

C9_DeleteExactlyOne ==
    [][\A id \in Ids :
         /\ DeleteTask(id) => C9_DeletePost(currentData.tasks, currentData'.tasks, id)
         /\ DeleteTopic(id) =>
              C9_DeletePost(currentData.dsTopics, currentData'.dsTopics, id)
         /\ DeleteActivity(id) =>
              C9_DeletePost(currentData.englishActivities,
                            currentData'.englishActivities, id)]_vars

IsBlank(s) == \A i \in 1..Len(s) : s[i] \in Whitespace

\* r is s without its leading and trailing whitespace
IsTrimOf(r, s) ==
    \E a, b \in 1..Len(s) :
        /\ r = SubSeq(s, a, b)
        /\ s[a] \notin Whitespace /\ s[b] \notin Whitespace
        /\ \A i \in 1..Len(s) : (i < a \/ i > b) => s[i] \in Whitespace

\* C10: addTopic with an empty or all-whitespace topic changes neither the
\* active record nor the store; otherwise it appends one entry at the end
\* of the topics, its topic the trimmed input, its difficulty 'Intermediate'
\* and its duration unset when those inputs are empty.
C10_AddTopic ==
    [][\A t \in TopicInputs, now \in Clock, rnd \in Random :
         AddTopic(MaxItems, t, now, rnd) =>
            IF IsBlank(t.topic)
            THEN store' = store /\ currentData' = currentData
            ELSE LET n == Len(currentData.dsTopics)
                     x == currentData'.dsTopics[n + 1]
                 IN  /\ Len(currentData'.dsTopics) = n + 1
                     /\ SubSeq(currentData'.dsTopics, 1, n) = currentData.dsTopics
                     /\ IsTrimOf(x.topic, t.topic)
                     /\ t.difficulty = "" => x.difficulty = "Intermediate"
                     /\ t.duration = <<>> => x.duration = Null
                     /\ currentData'.tasks = currentData.tasks
                     /\ currentData'.englishActivities = currentData.englishActivities
        ]_vars

C10_Witness ==
    /\ last = [op |-> "addTopic", n |-> 1]
    /\ Len(currentData.dsTopics) = 2
    /\ currentData.dsTopics[2].difficulty = "Intermediate"
    /\ currentData.dsTopics[2].duration = Null
    /\ currentData.dsTopics[1].difficulty # "Intermediate"

PerDateOps ==
    {"addTask", "updateTask", "deleteTask", "toggleTask", "addTopic",
     "deleteTopic", "addActivity", "deleteActivity"}

\* C11: addTask, updateTask, deleteTask, toggleTask, addTopic, deleteTopic,
\* addActivity and deleteActivity change at most the stored record of the
\* active date: every other key of the store stays, with its text, and no
\* key other than the active one appears.
C11_OtherDatesUnchanged ==
    [][last'.op \in PerDateOps =>
         /\ DOMAIN store' \subseteq DOMAIN store \cup {ActiveKey}
         /\ \A k \in DOMAIN store \ {ActiveKey} :
              k \in DOMAIN store' /\ store'[k] = store[k]]_vars

C11_Witness ==
    /\ last.op \in PerDateOps
    /\ last.n = 1
    /\ ActiveKey \in DOMAIN store
    /\ \E k \in DOMAIN store \ {ActiveKey} :
          JSONparse(store[k]) # getDefaultDateData
          /\ store[k] # store[ActiveKey]

\* C12: computing the weekly overview changes neither the store nor the
\* active date nor the active record; it yields 7 entries, one per
\* consecutive day from the week start, each with the completion rate
\* getStats gives for that day's stored tasks, 0 for a day with no tasks.
C12_WeeklyPureRead ==
    [][last'.op = "renderWeeklyOverview" =>
         /\ store' = store
         /\ currentDate' = currentDate
         /\ currentData' = currentData
         /\ weekly'.startOfWeek = getStartOfWeek(currentDate)
         /\ Len(weekly'.cards) = 7
         /\ \A i \in 1..7 :
              LET day == addDays(weekly'.startOfWeek, i - 1)
                  rec == getDateData(store, formatDate(day))
              IN  /\ weekly'.cards[i].dayDate = getDateString(day)
                  /\ weekly'.cards[i].completion = getStats(rec).rate
                  /\ rec.tasks = <<>> => weekly'.cards[i].completion = 0]_vars

C12_Witness ==
    /\ last.op = "renderWeeklyOverview"
    /\ Cardinality(DOMAIN store) = 1
    /\ \E i \in 1..7 : weekly.cards[i].completion = 50
    /\ \E i \in 1..7 : weekly.cards[i].completion = 0

\* C13: getStartOfWeek returns a Monday that is the anchor itself or at most
\* 6 days before it: 6 days before a Sunday, weekday - 1 days before any
\* other day, so the anchor lies within the 7 days from the returned date.
C13_StartOfWeek ==
    last.op = "renderWeeklyOverview" =>
        LET back == IF getDay(currentDate) = 0 THEN 6 ELSE getDay(currentDate) - 1
        IN  /\ getDayName(weekly.startOfWeek) = "Mon"
            /\ back \in 0..6
            /\ addDays(weekly.startOfWeek, back) = currentDate
            /\ addDays(currentDate, -back) = weekly.startOfWeek

C13_Witness ==
    /\ last.op = "renderWeeklyOverview"
    /\ getDayName(currentDate) = "Sun"
    /\ weekly.startOfWeek.month # currentDate.month

\* C14: the weekly overview shows the past 7 days: the 7 days it displays
\* are the active date and the 6 days before it.
C14_PastSevenDays ==
    last.op = "renderWeeklyOverview" =>
        \A i \in 1..7 :
            /\ weekly.cards[i].dayDate = getDateString(addDays(currentDate, i - 7))
            /\ weekly.cards[i].dayName = getDayName(addDays(currentDate, i - 7))

\* ten times the number a duration states: a decimal numeral, with or
\* without one fractional digit; 0 for an unset duration and for any text
\* that is not a number
DecimalDigits == {"0", "1", "2", "3", "4", "5", "6", "7", "8", "9"}

RECURSIVE NumeralValue(_)
NumeralValue(s) ==
    IF s = <<>> THEN 0
    ELSE 10 * NumeralValue(SubSeq(s, 1, Len(s) - 1)) + DigitValue(s[Len(s)])

DurationTenths(d) ==
    IF d # <<>> /\ \A i \in 1..Len(d) : d[i] \in DecimalDigits
    THEN 10 * NumeralValue(d)
    ELSE IF /\ Len(d) >= 3 /\ d[Len(d) - 1] = "."
            /\ \A i \in (1..Len(d)) \ {Len(d) - 1} : d[i] \in DecimalDigits
    THEN 10 * NumeralValue(SubSeq(d, 1, Len(d) - 2)) + DigitValue(d[Len(d)])
    ELSE 0

RECURSIVE SumTenths(_)
SumTenths(items) ==
    IF items = <<>> THEN 0
    ELSE DurationTenths(Head(items).duration) + SumTenths(Tail(items))

\* C15: DSTopicManager.getSummary and EnglishManager.getSummary return the
\* item count of the active record's collection and a totalMinutes equal to
\* the sum of the items' durations, an unset or non-numeric duration
\* counting 0; EnglishManager also returns the count of the items with
\* completed = true, which an activity has exactly when it was added with
\* the input literal 'true'.
C15_Summaries ==
    [][/\ last'.op = "renderDSSummary" =>
            /\ summaries'.ds.totalSessions = Len(currentData.dsTopics)
            /\ 10 * summaries'.ds.totalMinutes = SumTenths(currentData.dsTopics)
       /\ last'.op = "renderEnglishSummary" =>
            /\ summaries'.english.totalActivities = Len(currentData.englishActivities)
            /\ summaries'.english.completedActivities =
                 Cardinality({ i \in 1..Len(currentData.englishActivities) :
                                 currentData.englishActivities[i].completed })
            /\ 10 * summaries'.english.totalMinutes =
                 SumTenths(currentData.englishActivities)
       /\ \A a \in SummaryActivityInputs, now \in Clock, rnd \in Random :
            AddActivity(MaxSummaryItems, a, now, rnd) =>
               currentData'.englishActivities[Len(currentData'.englishActivities)]
                  .completed = (a.completed = "true")]_vars

\* C16: one submission of the task form creates at most one new task per
\* day record: in add mode without recurrence the active day gains exactly
\* one task, in add mode with recurrence over N days each of the N target
\* days gains exactly one task, and in edit mode the edited task's fields
\* are overwritten and the number of tasks of the active day is unchanged.
C16_Gain(key) == Len(StoredTasks(store', key)) - Len(StoredTasks(store, key))

C16_SubmitOnePerDay ==
    [][last'.op = "submitTaskForm" =>
         \A t \in TaskInputs, isRecurring \in BOOLEAN, days \in RecurringDays :
         \A nows \in [1..last'.n -> Clock], rnds \in [1..last'.n -> Random] :
            SubmitTaskForm(MaxFormTasks, t, isRecurring, days, nows, rnds) =>
               /\ \A k \in DOMAIN store' : C16_Gain(k) <= 1
               /\ IF editingTaskId # Null
                  THEN /\ C16_Gain(ActiveKey) = 0
                       /\ \E j \in 1..Len(currentData'.tasks) :
                            /\ currentData'.tasks[j].id = editingTaskId
                            /\ currentData'.tasks[j].startTime = t.startTime
                            /\ currentData'.tasks[j].endTime = t.endTime
                            /\ currentData'.tasks[j].name = t.name
                            /\ currentData'.tasks[j].category = t.category
                  ELSE IF isRecurring
                  THEN \A i \in 0..(recurringNumDays(days) - 1) :
                          C16_Gain(formatDate(addDays(currentDate, i))) = 1
                  ELSE C16_Gain(ActiveKey) = 1]_vars

\* C17: prevDay and nextDay leave the store unchanged and load the stored
\* record of the date they reach; a navigation step that returns to the date
\* the step before it left yields the record held when that date was left.
C17_NavigationRoundTrip ==
    [][last'.op \in {"prevDay", "nextDay"} =>
         /\ store' = store
         /\ currentData' = getDateData(store, formatDate(currentDate'))
         /\ (last.op \in {"prevDay", "nextDay"} /\ currentDate' = last.leftDate)
               => currentData' = last.left]_vars

C17_Witness ==
    /\ last.op \in {"prevDay", "nextDay"}
    /\ last.n = 2
    /\ currentDate # last.leftDate
    /\ currentData # getDefaultDateData
    /\ last.left # getDefaultDateData
    /\ last.left # currentData

====
